---- MODULE Spec2Model ----
(***************************************************************************)
(* A model of the polyphonic synthesizer core (src/src/synth.rs,           *)
(* src/src/engine.rs) and of its two adapters: the audio callback          *)
(* (src/src/audio.rs) and the interactive control loop (src/src/main.rs).  *)
(*                                                                         *)
(* Numbers.  An f32 that is a gain, a ratio or a normalised parameter is   *)
(* an integer count of 1/Scale (fixed point).  Frequencies are integer Hz. *)
(* Envelope times and durations are integer milliseconds; one call of      *)
(* next_sample advances envelope time by SamplePeriod milliseconds, the    *)
(* model's stand-in for 1.0 / sample_rate.  The filter's clamp uses the    *)
(* program's own SampleRate.                                               *)
(*                                                                         *)
(* Signal values.  sin/cos are outside TLA+, so the oscillator waveform,   *)
(* the FM feedback buffer and the biquad taps are not state of this model. *)
(* A voice's sample is modelled by its level: envelope value times         *)
(* velocity (the gain applied to the raw engine sample).                   *)
(*                                                                         *)
(* Components.  An EnvelopeGenerator (env) and a SineOscillator's phase    *)
(* (osc) are also driven on their own, through their public methods.       *)
(***************************************************************************)
EXTENDS Integers, Sequences, FiniteSets, TLC

VARIABLES
    synth,        \* the Synthesizer: [voices, current_note, current_velocity]
    out,          \* what the last Synthesizer::next_sample returned
    lastOp,       \* the last call made on the Synthesizer: [op, args]
    tail,         \* history: the last note event and the next_sample calls made since
    setterCalls,  \* number of parameter-setter calls made so far
    mutex,        \* holder of the Mutex<Synthesizer>: "none", "audio", "control"
    audio,        \* the audio thread: stream configuration and callback position
    ctl,          \* the control thread: command in progress and calls left in it
    interleaved,  \* history: a call of one thread ran inside the other's critical section
    env,          \* an EnvelopeGenerator driven on its own, through its public methods
    envHist,      \* history of env: the last call, what it returned, the last note event
    osc           \* a SineOscillator driven on its own: [frequency, phase, calls]

vars == <<synth, out, lastOp, tail, setterCalls, mutex, audio, ctl, interleaved,
          env, envHist, osc>>

\* the program: the Synthesizer and the two threads that share it
progVars == <<synth, out, lastOp, tail, setterCalls, mutex, audio, ctl, interleaved>>

\* the components driven on their own
unitVars == <<env, envHist, osc>>

----------------------------------------------------------------------------
(* Bounds of the model *)

\* fixed-point resolution: 1.0 is Scale
Scale == 10
\* milliseconds of envelope time per next_sample call
SamplePeriod == 50
\* cap of the tail counter
MaxTail == 4
\* parameter-setter calls per behaviour
MaxSetterCalls == 1
\* frames per audio callback buffer
MaxFrames == 2
\* channels of the output device
MaxChannels == 2

(* Program constants *)

SampleRate == 44100
NumHarmonics == 64
NumOperators == 6
CutoffMin == 20
CutoffScale == 20000
DefaultCutoff == 20000
DefaultAttack == 10
DefaultDecay == 100
DefaultRelease == 200
DefaultFrequency == 440
DefaultNote == 60
ConcertA == 69

\* f32 products are saturated here, far above every clamp range, so that they
\* stay inside TLC's 32-bit integers
FloatMax == 1000000000

----------------------------------------------------------------------------
(* f32 helpers *)

Clamp(x, lo, hi) == IF x < lo THEN lo ELSE IF x > hi THEN hi ELSE x

Abs(x) == IF x < 0 THEN 0 - x ELSE x

MulSat(a, b) ==
    IF b = 0 \/ a = 0 THEN 0
    ELSE IF Abs(a) > FloatMax \div Abs(b)
         THEN (IF (a < 0) = (b < 0) THEN FloatMax ELSE 0 - FloatMax)
         ELSE a * b

RECURSIVE Pow2(_)
Pow2(n) == IF n <= 0 THEN 1 ELSE 2 * Pow2(n - 1)

\* 2^(k/12) for k = 0..11, in thousandths
SemitoneMilli == <<1000, 1059, 1122, 1189, 1260, 1335, 1414, 1498, 1587, 1682, 1782, 1888>>

\* 440.0 * 2.0_f32.powf((note as f32 - 69.0) / 12.0), in whole Hz
NoteFrequency(note) ==
    LET semis == note - ConcertA
        oct   == semis \div 12
        k     == semis % 12
        num   == DefaultFrequency * SemitoneMilli[k + 1]
    IN  IF oct >= 0 THEN (num * Pow2(oct)) \div 1000
        ELSE num \div (1000 * Pow2(0 - oct))

----------------------------------------------------------------------------
(* engine.rs: SineOscillator, AdditiveEngine, FMEngine, EngineBlender *)

SineOscillator_new == [frequency |-> DefaultFrequency, amplitude |-> Scale]

AdditiveEngine_new ==
    [harmonics |-> [i \in 0..(NumHarmonics - 1) |->
                      [frequency_multiplier |-> i + 1,
                       amplitude |-> IF i = 0 THEN Scale ELSE 0,
                       enabled |-> (i = 0)]],
     base_frequency |-> DefaultFrequency,
     oscillators |-> [i \in 0..(NumHarmonics - 1) |-> SineOscillator_new]]

AdditiveEngine_set_base_frequency(e, freq) ==
    [e EXCEPT !.base_frequency = freq,
              !.oscillators = [i \in DOMAIN e.oscillators |->
                  [frequency |-> freq * e.harmonics[i].frequency_multiplier,
                   amplitude |-> IF e.harmonics[i].enabled
                                 THEN e.harmonics[i].amplitude ELSE 0]]]

AdditiveEngine_set_harmonic_amplitude_clampidx(e, harmonic_index, amplitude) ==
    LET i == IF harmonic_index < NumHarmonics THEN harmonic_index ELSE NumHarmonics - 1
    IN  [e EXCEPT !.harmonics[i].amplitude = amplitude,
                  !.oscillators[i].amplitude = amplitude]

AdditiveEngine_set_harmonic_amplitude(e, harmonic_index, amplitude) ==
    IF harmonic_index < Cardinality(DOMAIN e.harmonics)
    THEN [e EXCEPT !.harmonics[harmonic_index].amplitude = amplitude,
                   !.oscillators[harmonic_index].amplitude = amplitude]
    ELSE e

AdditiveEngine_toggle_harmonic(e, harmonic_index) ==
    IF harmonic_index < Cardinality(DOMAIN e.harmonics)
    THEN LET en == ~e.harmonics[harmonic_index].enabled
         IN  [e EXCEPT !.harmonics[harmonic_index].enabled = en,
                       !.oscillators[harmonic_index].amplitude =
                           IF en THEN e.harmonics[harmonic_index].amplitude ELSE 0]
    ELSE e

FMEngine_new ==
    [operators |-> [i \in 0..(NumOperators - 1) |->
                      [frequency_ratio |-> IF i = 0 THEN Scale ELSE 0,
                       amplitude |-> IF i = 0 THEN Scale ELSE 0,
                       feedback |-> 0,
                       enabled |-> (i = 0)]],
     base_frequency |-> DefaultFrequency,
     oscillators |-> [i \in 0..(NumOperators - 1) |-> SineOscillator_new]]

FMEngine_set_base_frequency(e, freq) ==
    [e EXCEPT !.base_frequency = freq,
              !.oscillators = [i \in DOMAIN e.oscillators |->
                  [e.oscillators[i] EXCEPT
                      !.frequency = MulSat(freq, e.operators[i].frequency_ratio) \div Scale]]]

FMEngine_set_operator_amplitude(e, operator_index, amplitude) ==
    IF operator_index < Cardinality(DOMAIN e.operators)
    THEN [e EXCEPT !.operators[operator_index].amplitude = amplitude]
    ELSE e

FMEngine_set_operator_frequency_ratio(e, operator_index, ratio) ==
    IF operator_index < Cardinality(DOMAIN e.operators)
    THEN [e EXCEPT !.operators[operator_index].frequency_ratio = ratio,
                   !.oscillators[operator_index].frequency =
                       MulSat(e.base_frequency, ratio) \div Scale]
    ELSE e

FMEngine_set_operator_feedback(e, operator_index, feedback) ==
    IF operator_index < Cardinality(DOMAIN e.operators)
    THEN [e EXCEPT !.operators[operator_index].feedback = feedback]
    ELSE e

EngineBlender_new ==
    [additive_engine |-> AdditiveEngine_new,
     fm_engine |-> FMEngine_new,
     blend_ratio |-> Scale \div 2]

EngineBlender_set_blend_ratio(b, ratio) ==
    [b EXCEPT !.blend_ratio = Clamp(ratio, 0, Scale)]

EngineBlender_set_frequency(b, freq) ==
    [b EXCEPT !.additive_engine = AdditiveEngine_set_base_frequency(@, freq),
              !.fm_engine = FMEngine_set_base_frequency(@, freq)]

----------------------------------------------------------------------------
(* synth.rs: Envelope, EnvelopeGenerator, LowPassFilter *)

Envelope_default ==
    [attack |-> DefaultAttack, decay |-> DefaultDecay,
     sustain |-> (7 * Scale) \div 10, release |-> DefaultRelease]

EnvelopeGenerator_new ==
    [envelope |-> Envelope_default,
     current_stage |-> "Idle",
     current_time |-> 0,
     current_value |-> 0,
     gate |-> FALSE]

EnvelopeGenerator_set_envelope(g, envelope) == [g EXCEPT !.envelope = envelope]

\* variant: a note-on that keeps the elapsed time of the stage it interrupts
EnvelopeGenerator_note_on_legato(g) ==
    [g EXCEPT !.gate = TRUE, !.current_stage = "Attack"]

EnvelopeGenerator_note_on(g) ==
    [g EXCEPT !.gate = TRUE, !.current_stage = "Attack", !.current_time = 0]

\* variant: a note-off that keeps the elapsed time of the stage it interrupts
EnvelopeGenerator_note_off_keep_time(g) ==
    [g EXCEPT !.gate = FALSE, !.current_stage = "Release"]

EnvelopeGenerator_note_off(g) ==
    [g EXCEPT !.gate = FALSE, !.current_stage = "Release", !.current_time = 0]

\* an f32 division by zero gives an infinity or NaN; the model has one value,
\* beyond every finite one, for all of them
NonFinite == 2 * FloatMax

Finite(x) == Abs(x) <= FloatMax

\* x * (t / d) in f32
Ratio(x, t, d) == IF d = 0 THEN NonFinite ELSE (x * t) \div d

\* variant: a stage ends only after its duration has been exceeded
StageOver_strict(t, d) == t > d

\* variant: a stage of no length never ends
StageOver_positive(t, d) == d > 0 /\ t >= d

\* self.current_time >= self.envelope.<duration of the stage>
StageOver(t, d) == t >= d

\* variant: the attack leads straight into the sustain
StageAfter_skip(stage) ==
    CASE stage = "Attack" -> "Sustain"
      [] stage = "Decay" -> "Sustain"
      [] stage = "Sustain" -> "Release"
      [] OTHER -> "Idle"

\* the stage next_sample moves to when a stage ends
StageAfter(stage) ==
    CASE stage = "Attack" -> "Decay"
      [] stage = "Decay" -> "Sustain"
      [] stage = "Sustain" -> "Release"
      [] OTHER -> "Idle"

EnvelopeGenerator_next_sample(g) ==
    LET t == g.current_time + SamplePeriod
        e == g.envelope
    IN  CASE g.current_stage = "Attack" ->
               IF StageOver(t, e.attack)
               THEN [g EXCEPT !.current_stage = StageAfter("Attack"), !.current_time = 0,
                              !.current_value = Scale]
               ELSE [g EXCEPT !.current_time = t,
                              !.current_value = Ratio(Scale, t, e.attack)]
          [] g.current_stage = "Decay" ->
               IF StageOver(t, e.decay)
               THEN [g EXCEPT !.current_stage = StageAfter("Decay"), !.current_time = t,
                              !.current_value = e.sustain]
               ELSE [g EXCEPT !.current_time = t,
                              !.current_value =
                                  Scale - Ratio(Scale - e.sustain, t, e.decay)]
          [] g.current_stage = "Sustain" ->
               IF ~g.gate
               THEN [g EXCEPT !.current_stage = StageAfter("Sustain"), !.current_time = 0,
                              !.current_value = e.sustain]
               ELSE [g EXCEPT !.current_value = e.sustain]
          [] g.current_stage = "Release" ->
               IF StageOver(t, e.release)
               THEN [g EXCEPT !.current_stage = StageAfter("Release"), !.current_time = t,
                              !.current_value = 0]
               ELSE [g EXCEPT !.current_time = t,
                              !.current_value =
                                  Ratio(e.sustain, e.release - t, e.release)]
          [] OTHER -> [g EXCEPT !.current_value = 0]

LowPassFilter_new == [cutoff_frequency |-> DefaultCutoff, resonance |-> 0]

LowPassFilter_set_cutoff(f, cutoff) ==
    [f EXCEPT !.cutoff_frequency = Clamp(cutoff, CutoffMin, SampleRate \div 2)]

LowPassFilter_set_resonance(f, resonance) ==
    [f EXCEPT !.resonance = Clamp(resonance, 0, Scale)]

----------------------------------------------------------------------------
(* synth.rs: Voice *)

Voice_new ==
    [engine_blender |-> EngineBlender_new,
     envelope |-> EnvelopeGenerator_new,
     filter |-> LowPassFilter_new,
     frequency |-> DefaultFrequency,
     velocity |-> Scale \div 2,
     note |-> DefaultNote,
     is_active |-> FALSE]

Voice_note_on(v, note, velocity) ==
    [v EXCEPT !.frequency = NoteFrequency(note),
              !.note = note,
              !.velocity = Clamp(velocity, 0, Scale),
              !.engine_blender = EngineBlender_set_frequency(@, NoteFrequency(note)),
              !.envelope = EnvelopeGenerator_note_on(@),
              !.is_active = TRUE]

\* variant: a note-off that releases the envelope and leaves the voice active
Voice_note_off_keep_active(v) ==
    [v EXCEPT !.envelope = EnvelopeGenerator_note_off(@)]

Voice_note_off(v) ==
    [v EXCEPT !.envelope = EnvelopeGenerator_note_off(@), !.is_active = FALSE]

\* the voice after next_sample: an inactive voice returns before touching its chain
Voice_next_sample(v) ==
    IF ~v.is_active THEN v
    ELSE [v EXCEPT !.envelope = EnvelopeGenerator_next_sample(@)]

\* the level of the sample next_sample returns: envelope_value * velocity
Voice_sample(v) ==
    IF ~v.is_active THEN 0
    ELSE (EnvelopeGenerator_next_sample(v.envelope).current_value * v.velocity) \div Scale

Voice_is_active(v) == v.is_active

Voice_is_released(v) == ~v.is_active /\ v.envelope.current_stage = "Idle"

Voice_set_blend(v, blend) ==
    [v EXCEPT !.engine_blender = EngineBlender_set_blend_ratio(@, blend)]

Voice_set_cutoff(v, cutoff) ==
    [v EXCEPT !.filter = LowPassFilter_set_cutoff(@, MulSat(cutoff, CutoffScale) \div Scale)]

Voice_set_resonance(v, resonance) ==
    [v EXCEPT !.filter = LowPassFilter_set_resonance(@, resonance)]

Voice_set_attack(v, attack) == [v EXCEPT !.envelope.envelope.attack = attack]

Voice_set_decay(v, decay) == [v EXCEPT !.envelope.envelope.decay = decay]

Voice_set_sustain(v, sustain) == [v EXCEPT !.envelope.envelope.sustain = sustain]

Voice_set_release(v, release) == [v EXCEPT !.envelope.envelope.release = release]

Voice_set_harmonic_amplitude(v, harmonic_index, amplitude) ==
    [v EXCEPT !.engine_blender.additive_engine =
        AdditiveEngine_set_harmonic_amplitude(@, harmonic_index, amplitude)]

Voice_toggle_harmonic(v, harmonic_index) ==
    [v EXCEPT !.engine_blender.additive_engine =
        AdditiveEngine_toggle_harmonic(@, harmonic_index)]

Voice_set_operator_amplitude(v, operator_index, amplitude) ==
    [v EXCEPT !.engine_blender.fm_engine =
        FMEngine_set_operator_amplitude(@, operator_index, amplitude)]

Voice_set_operator_frequency_ratio(v, operator_index, ratio) ==
    [v EXCEPT !.engine_blender.fm_engine =
        FMEngine_set_operator_frequency_ratio(@, operator_index, ratio)]

Voice_set_operator_feedback(v, operator_index, feedback) ==
    [v EXCEPT !.engine_blender.fm_engine =
        FMEngine_set_operator_feedback(@, operator_index, feedback)]

Voice_set_volume(v, volume) == [v EXCEPT !.velocity = Clamp(volume, 0, Scale)]

Voice_set_envelope(v, envelope) == [v EXCEPT !.envelope.envelope = envelope]

----------------------------------------------------------------------------
(* synth.rs: Synthesizer.  An Option is a sequence: None is <<>>, Some(x) is <<x>> *)

None == <<>>

Some(x) == <<x>>

Synthesizer_new ==
    [voices |-> <<>>, current_note |-> None, current_velocity |-> None]

\* HashMap::insert / entry on the pool
PoolPut(voices, note, v) ==
    [n \in DOMAIN voices \cup {note} |-> IF n = note THEN v ELSE voices[n]]

Synthesizer_note_on_fresh(s, note, velocity) ==
    [s EXCEPT !.voices = PoolPut(s.voices, note, Voice_note_on(Voice_new, note, velocity)),
              !.current_note = Some(note),
              !.current_velocity = Some(velocity)]

\* variant: a voice for a new note starts as a copy of a voice of the pool, so
\* that it carries the parameters set so far
Synthesizer_note_on_inherit(s, note, velocity) ==
    LET voice == IF note \in DOMAIN s.voices THEN s.voices[note]
                 ELSE IF DOMAIN s.voices # {}
                      THEN s.voices[CHOOSE n \in DOMAIN s.voices : TRUE]
                      ELSE Voice_new
    IN  [s EXCEPT !.voices = PoolPut(s.voices, note, Voice_note_on(voice, note, velocity)),
                  !.current_note = Some(note),
                  !.current_velocity = Some(velocity)]

Synthesizer_note_on(s, note, velocity) ==
    LET voice == IF note \in DOMAIN s.voices THEN s.voices[note] ELSE Voice_new
    IN  [s EXCEPT !.voices = PoolPut(s.voices, note, Voice_note_on(voice, note, velocity)),
                  !.current_note = Some(note),
                  !.current_velocity = Some(velocity)]

Synthesizer_note_off(s, note) ==
    [s EXCEPT !.voices = IF note \in DOMAIN s.voices
                         THEN [@ EXCEPT ![note] = Voice_note_off(@)]
                         ELSE @,
              !.current_note = None,
              !.current_velocity = None]

RECURSIVE SumLevels(_, _)
SumLevels(voices, keys) ==
    IF keys = {} THEN 0
    ELSE LET n == CHOOSE k \in keys : TRUE
         IN  Voice_sample(voices[n]) + SumLevels(voices, keys \ {n})

ActiveCount(s) == Cardinality({n \in DOMAIN s.voices : s.voices[n].is_active})

\* self.voices.len()
VoiceCount(s) == Cardinality(DOMAIN s.voices)

DivisorActive(s) == ActiveCount(s)

\* the class of the f32 quotient x / d: x / 0.0 is NaN for x = 0.0 and an
\* infinity otherwise
F32DivKind(x, d) ==
    IF d = 0 THEN (IF x = 0 THEN "NaN" ELSE "Inf") ELSE "finite"

\* the divisor of Synthesizer::next_sample
Divisor(s) == VoiceCount(s)

\* what Synthesizer::next_sample returns: the class of sample / voices.len(),
\* with the divisor it used
Synthesizer_sample(s) ==
    [kind |-> F32DivKind(SumLevels(s.voices, DOMAIN s.voices), Divisor(s)),
     divisor |-> Divisor(s)]

\* the Synthesizer after next_sample
Synthesizer_next_sample(s) ==
    [s EXCEPT !.voices = [n \in DOMAIN s.voices |-> Voice_next_sample(s.voices[n])]]

Synthesizer_set_blend_ratio(s, ratio) ==
    [s EXCEPT !.voices = [n \in DOMAIN s.voices |-> Voice_set_blend(s.voices[n], ratio)]]

Synthesizer_set_blend(s, blend) ==
    [s EXCEPT !.voices = [n \in DOMAIN s.voices |-> Voice_set_blend(s.voices[n], blend)]]

Synthesizer_set_volume(s, volume) ==
    [s EXCEPT !.voices = [n \in DOMAIN s.voices |-> Voice_set_volume(s.voices[n], volume)]]

Synthesizer_set_filter_cutoff(s, cutoff) ==
    [s EXCEPT !.voices = [n \in DOMAIN s.voices |-> Voice_set_cutoff(s.voices[n], cutoff)]]

Synthesizer_set_cutoff(s, cutoff) ==
    [s EXCEPT !.voices = [n \in DOMAIN s.voices |->
        Voice_set_cutoff(s.voices[n], MulSat(cutoff, CutoffScale))]]

Synthesizer_set_filter_resonance(s, resonance) ==
    [s EXCEPT !.voices = [n \in DOMAIN s.voices |-> Voice_set_resonance(s.voices[n], resonance)]]

Synthesizer_set_resonance_active_only(s, resonance) ==
    [s EXCEPT !.voices = [n \in DOMAIN s.voices |->
        IF s.voices[n].is_active THEN Voice_set_resonance(s.voices[n], resonance)
        ELSE s.voices[n]]]

Synthesizer_set_resonance(s, resonance) ==
    [s EXCEPT !.voices = [n \in DOMAIN s.voices |-> Voice_set_resonance(s.voices[n], resonance)]]

Synthesizer_set_envelope(s, envelope) ==
    [s EXCEPT !.voices = [n \in DOMAIN s.voices |-> Voice_set_envelope(s.voices[n], envelope)]]

Synthesizer_set_attack(s, attack) ==
    [s EXCEPT !.voices = [n \in DOMAIN s.voices |-> Voice_set_attack(s.voices[n], attack)]]

Synthesizer_set_decay(s, decay) ==
    [s EXCEPT !.voices = [n \in DOMAIN s.voices |-> Voice_set_decay(s.voices[n], decay)]]

Synthesizer_set_sustain(s, sustain) ==
    [s EXCEPT !.voices = [n \in DOMAIN s.voices |-> Voice_set_sustain(s.voices[n], sustain)]]

Synthesizer_set_release(s, release) ==
    [s EXCEPT !.voices = [n \in DOMAIN s.voices |-> Voice_set_release(s.voices[n], release)]]

Synthesizer_set_harmonic_amplitude(s, harmonic_index, amplitude) ==
    [s EXCEPT !.voices = [n \in DOMAIN s.voices |->
        Voice_set_harmonic_amplitude(s.voices[n], harmonic_index, amplitude)]]

Synthesizer_toggle_harmonic(s, harmonic_index) ==
    [s EXCEPT !.voices = [n \in DOMAIN s.voices |->
        Voice_toggle_harmonic(s.voices[n], harmonic_index)]]

Synthesizer_set_operator_amplitude(s, operator_index, amplitude) ==
    [s EXCEPT !.voices = [n \in DOMAIN s.voices |->
        Voice_set_operator_amplitude(s.voices[n], operator_index, amplitude)]]

Synthesizer_set_operator_frequency_ratio(s, operator_index, ratio) ==
    [s EXCEPT !.voices = [n \in DOMAIN s.voices |->
        Voice_set_operator_frequency_ratio(s.voices[n], operator_index, ratio)]]

Synthesizer_set_operator_feedback(s, operator_index, feedback) ==
    [s EXCEPT !.voices = [n \in DOMAIN s.voices |->
        Voice_set_operator_feedback(s.voices[n], operator_index, feedback)]]

Synthesizer_is_playing(s) == \E n \in DOMAIN s.voices : Voice_is_active(s.voices[n])

----------------------------------------------------------------------------
(* Calls on the Synthesizer.  A call is [op, args]; Apply is the method call. *)

Call(op, args) == [op |-> op, args |-> args]

EnvelopeOf(a) == [attack |-> a[1], decay |-> a[2], sustain |-> a[3], release |-> a[4]]

Apply(s, c) ==
    LET a == c.args
    IN  CASE c.op = "note_on" -> Synthesizer_note_on(s, a[1], a[2])
          [] c.op = "note_off" -> Synthesizer_note_off(s, a[1])
          [] c.op = "next_sample" -> Synthesizer_next_sample(s)
          [] c.op = "set_blend_ratio" -> Synthesizer_set_blend_ratio(s, a[1])
          [] c.op = "set_blend" -> Synthesizer_set_blend(s, a[1])
          [] c.op = "set_volume" -> Synthesizer_set_volume(s, a[1])
          [] c.op = "set_filter_cutoff" -> Synthesizer_set_filter_cutoff(s, a[1])
          [] c.op = "set_cutoff" -> Synthesizer_set_cutoff(s, a[1])
          [] c.op = "set_filter_resonance" -> Synthesizer_set_filter_resonance(s, a[1])
          [] c.op = "set_resonance" -> Synthesizer_set_resonance(s, a[1])
          [] c.op = "set_envelope" -> Synthesizer_set_envelope(s, EnvelopeOf(a))
          [] c.op = "set_attack" -> Synthesizer_set_attack(s, a[1])
          [] c.op = "set_decay" -> Synthesizer_set_decay(s, a[1])
          [] c.op = "set_sustain" -> Synthesizer_set_sustain(s, a[1])
          [] c.op = "set_release" -> Synthesizer_set_release(s, a[1])
          [] c.op = "set_harmonic_amplitude" ->
               Synthesizer_set_harmonic_amplitude(s, a[1], a[2])
          [] c.op = "toggle_harmonic" -> Synthesizer_toggle_harmonic(s, a[1])
          [] c.op = "set_operator_amplitude" ->
               Synthesizer_set_operator_amplitude(s, a[1], a[2])
          [] c.op = "set_operator_frequency_ratio" ->
               Synthesizer_set_operator_frequency_ratio(s, a[1], a[2])
          [] c.op = "set_operator_feedback" ->
               Synthesizer_set_operator_feedback(s, a[1], a[2])

\* the value of the last next_sample, replaced only by a next_sample call
OutAfter(s, c) == IF c.op = "next_sample" THEN Synthesizer_sample(s) ELSE out

----------------------------------------------------------------------------
(* Inputs *)

\* note numbers of the 'c' and 'a' commands
Notes == {60, 69}

\* the note velocity of the 'c' command, 0.8
VelHeld == {(8 * Scale) \div 10}

\* arguments of the normalised setters: below, inside and above [0, 1]
FloatIn == {0 - Scale, Scale \div 2, 2 * Scale}

\* stage durations in milliseconds: zero, and one that is no multiple of the period
DurIn == {0, 2 * SamplePeriod + 20}

\* sustain levels
SustainIn == {Scale \div 2, 2 * Scale}

EnvelopeIn ==
    {<<0, 0, Scale, 0>>, <<SamplePeriod, SamplePeriod, 0 - Scale, SamplePeriod>>}

\* harmonic and operator indices: first, last, and one past the end
HarmonicIdxIn == {0, NumHarmonics - 1, NumHarmonics}

OperatorIdxIn == {0, NumOperators - 1, NumOperators}

AmpIn == {Scale \div 2}

----------------------------------------------------------------------------
(* State after construction: Synthesizer::new, no stream, no command *)

Init ==
    /\ synth = Synthesizer_new
    /\ out = [kind |-> "none", divisor |-> 0]
    /\ lastOp = Call("new", <<>>)
    /\ tail = [op |-> "none", note |-> 0, calls |-> 0, retimed |-> FALSE]
    /\ setterCalls = 0
    /\ mutex = "none"
    /\ audio = [pc |-> "stopped", channels |-> 0, frames |-> 0, remaining |-> 0, calls |-> 0]
    /\ ctl = [pc |-> "idle", program |-> <<>>]
    /\ interleaved = FALSE
    /\ env = EnvelopeGenerator_new
    /\ envHist = [op |-> "new", out |-> 0, event |-> "none", calls |-> 0,
                  from |-> "Idle", fromValue |-> 0, steady |-> TRUE]
    /\ osc = [frequency |-> SineOscillator_new.frequency, phase |-> 0, calls |-> 0]

\* history: the last note event, the next_sample calls made since (capped), and
\* whether a release time was set since
TailAfter(c) ==
    CASE c.op \in {"note_on", "note_off"} ->
           [op |-> c.op, note |-> c.args[1], calls |-> 0, retimed |-> FALSE]
      [] c.op = "next_sample" /\ tail.op # "none" /\ tail.calls < MaxTail ->
           [tail EXCEPT !.calls = @ + 1]
      [] c.op \in {"set_release", "set_envelope"} /\ tail.op # "none" ->
           [tail EXCEPT !.retimed = TRUE]
      [] OTHER -> tail

\* one call made directly on the Synthesizer (no threads involved)
Do(c) ==
    /\ synth' = Apply(synth, c)
    /\ out' = OutAfter(synth, c)
    /\ lastOp' = c
    /\ tail' = TailAfter(c)
    /\ UNCHANGED <<mutex, audio, ctl, interleaved, env, envHist, osc>>

Plain(c) == Do(c) /\ UNCHANGED setterCalls

Setter(c) ==
    /\ setterCalls < MaxSetterCalls
    /\ setterCalls' = setterCalls + 1
    /\ Do(c)

NoteOn == \E n \in Notes, v \in VelHeld : Plain(Call("note_on", <<n, v>>))

NoteOff == \E n \in Notes : Plain(Call("note_off", <<n>>))

NextSample == Plain(Call("next_sample", <<>>))

SetBlendRatio == \E x \in FloatIn : Setter(Call("set_blend_ratio", <<x>>))

SetBlend == \E x \in FloatIn : Setter(Call("set_blend", <<x>>))

SetVolume == \E x \in FloatIn : Setter(Call("set_volume", <<x>>))

SetFilterCutoff == \E x \in FloatIn : Setter(Call("set_filter_cutoff", <<x>>))

SetCutoff == \E x \in FloatIn : Setter(Call("set_cutoff", <<x>>))

SetFilterResonance == \E x \in FloatIn : Setter(Call("set_filter_resonance", <<x>>))

SetResonance == \E x \in FloatIn : Setter(Call("set_resonance", <<x>>))

SetEnvelope == \E e \in EnvelopeIn : Setter(Call("set_envelope", e))

SetAttack == \E x \in DurIn : Setter(Call("set_attack", <<x>>))

SetDecay == \E x \in DurIn : Setter(Call("set_decay", <<x>>))

SetSustain == \E x \in SustainIn : Setter(Call("set_sustain", <<x>>))

SetRelease == \E x \in DurIn : Setter(Call("set_release", <<x>>))

SetHarmonicAmplitude ==
    \E i \in HarmonicIdxIn, x \in AmpIn : Setter(Call("set_harmonic_amplitude", <<i, x>>))

ToggleHarmonic == \E i \in HarmonicIdxIn : Setter(Call("toggle_harmonic", <<i>>))

SetOperatorAmplitude ==
    \E i \in OperatorIdxIn, x \in AmpIn : Setter(Call("set_operator_amplitude", <<i, x>>))

SetOperatorFrequencyRatio ==
    \E i \in OperatorIdxIn, x \in AmpIn :
        Setter(Call("set_operator_frequency_ratio", <<i, x>>))

SetOperatorFeedback ==
    \E i \in OperatorIdxIn, x \in AmpIn : Setter(Call("set_operator_feedback", <<i, x>>))

\* the note lifecycle with sample generation
Next == NoteOn \/ NoteOff \/ NextSample \/ SetRelease

Spec == Init /\ [][Next]_vars

\* the parameter setters on a pool of held and released notes
NextSetters ==
    \/ NoteOn \/ NoteOff
    \/ SetBlendRatio \/ SetBlend \/ SetVolume
    \/ SetFilterCutoff \/ SetCutoff \/ SetFilterResonance \/ SetResonance
    \/ SetEnvelope \/ SetAttack \/ SetDecay \/ SetSustain \/ SetRelease
    \/ SetHarmonicAmplitude \/ ToggleHarmonic
    \/ SetOperatorAmplitude \/ SetOperatorFrequencyRatio \/ SetOperatorFeedback

SpecSetters == Init /\ [][NextSetters]_vars

----------------------------------------------------------------------------
(* The two threads sharing Arc<Mutex<Synthesizer>>: the cpal output callback *)
(* (audio.rs) and the interactive control loop (main.rs).                    *)
(* test_synthesizer, which main runs first, only calls next_sample on the    *)
(* empty pool and leaves the Synthesizer as constructed.                     *)

\* Mutex::lock returns only when nobody holds the mutex
MutexCanLock_unguarded(m) == TRUE

MutexCanLock(m) == m = "none"

Formats == {"F32", "I16", "U16", "U8"}

SupportedFormats == {"F32", "I16", "U16"}

\* AudioOutput::start: the device's default configuration decides the sample
\* format and the channel count; an unsupported format is an Err and main returns.
\* The callbacks of the three supported formats run the same loop and differ only
\* in the conversion of the value written, so the format itself is not kept.
AudioStart ==
    \E f \in Formats, c \in 1..MaxChannels :
        /\ audio.pc = "stopped"
        /\ ctl.pc = "idle"
        /\ audio' = [audio EXCEPT !.pc = IF f \in SupportedFormats THEN "idle" ELSE "failed",
                                  !.channels = c]
        /\ UNCHANGED <<synth, out, lastOp, tail, setterCalls, mutex, ctl, interleaved, env, envHist, osc>>

\* the data callback is entered with an interleaved buffer of frames * channels
\* slots and takes the lock before the loop
AudioCallbackBegin ==
    \E frames \in 1..MaxFrames :
        /\ audio.pc = "idle"
        /\ ctl.pc # "quit"
        /\ MutexCanLock(mutex)
        /\ mutex' = "audio"
        /\ audio' = [audio EXCEPT !.pc = "fill", !.frames = frames,
                                  !.remaining = frames * audio.channels, !.calls = 0]
        /\ UNCHANGED <<synth, out, lastOp, tail, setterCalls, ctl, interleaved, env, envHist, osc>>

\* one iteration of `for sample in data.iter_mut()`: one next_sample per slot
AudioFillSlot ==
    /\ audio.pc = "fill"
    /\ audio.remaining > 0
    /\ synth' = Apply(synth, Call("next_sample", <<>>))
    /\ out' = OutAfter(synth, Call("next_sample", <<>>))
    /\ lastOp' = Call("next_sample", <<>>)
    /\ audio' = [audio EXCEPT !.remaining = @ - 1, !.calls = @ + 1]
    /\ interleaved' = (interleaved \/ ctl.pc = "locked")
    /\ UNCHANGED <<tail, setterCalls, mutex, ctl, env, envHist, osc>>

\* the callback returns and the guard is dropped
AudioCallbackEnd ==
    /\ audio.pc = "fill"
    /\ audio.remaining = 0
    /\ audio' = [audio EXCEPT !.pc = "idle"]
    /\ mutex' = "none"
    /\ UNCHANGED <<synth, out, lastOp, tail, setterCalls, ctl, interleaved, env, envHist, osc>>

\* every order in which a HashMap may hand out the keys
Orders(S) ==
    {q \in [1..Cardinality(S) -> S] : \A x \in S : \E i \in 1..Cardinality(S) : q[i] = x}

\* the command lines drawn here; Programs covers more of the match than is drawn
Commands == {"c", "a", "s", "p", "env"}

\* the calls a command makes while it holds the lock
Programs(cmd) ==
    CASE cmd = "c" -> {<<Call("note_on", <<60, (8 * Scale) \div 10>>)>>}
      [] cmd = "a" -> {<<Call("note_on", <<69, (55 * Scale) \div 100>>)>>}
      [] cmd = "s" -> {[i \in 1..Len(q) |-> Call("note_off", <<q[i]>>)] :
                          q \in Orders(DOMAIN synth.voices)}
      [] cmd = "p" -> {<<>>}
      [] cmd = "1" -> {<<Call("set_blend", <<0>>)>>}
      [] cmd = "env" -> {<<Call("set_attack", <<100>>), Call("set_decay", <<200>>),
                           Call("set_sustain", <<(7 * Scale) \div 10>>),
                           Call("set_release", <<300>>)>>}
      [] cmd = "filter" -> {<<Call("set_cutoff", <<Scale \div 2>>),
                              Call("set_resonance", <<(3 * Scale) \div 10>>)>>}

\* a command line is read and its match arm takes the lock
ControlBegin ==
    \E cmd \in Commands :
        /\ audio.pc \in {"idle", "fill"}
        /\ ctl.pc = "idle"
        /\ MutexCanLock(mutex)
        /\ mutex' = "control"
        /\ \E prog \in Programs(cmd) : ctl' = [pc |-> "locked", program |-> prog]
        /\ UNCHANGED <<synth, out, lastOp, tail, setterCalls, audio, interleaved, env, envHist, osc>>

\* the next call of the command in progress
ControlStep ==
    /\ ctl.pc = "locked"
    /\ ctl.program # <<>>
    /\ synth' = Apply(synth, Head(ctl.program))
    /\ lastOp' = Head(ctl.program)
    /\ ctl' = [ctl EXCEPT !.program = Tail(@)]
    /\ interleaved' = (interleaved \/ audio.pc = "fill")
    /\ UNCHANGED <<out, tail, setterCalls, mutex, audio, env, envHist, osc>>

\* the match arm ends and the guard is dropped
ControlEnd ==
    /\ ctl.pc = "locked"
    /\ ctl.program = <<>>
    /\ ctl' = [ctl EXCEPT !.pc = "idle"]
    /\ mutex' = "none"
    /\ UNCHANGED <<synth, out, lastOp, tail, setterCalls, audio, interleaved, env, envHist, osc>>

\* 'q' leaves the loop; main returns and the stream is dropped
ControlQuit ==
    /\ audio.pc \in {"idle", "fill"}
    /\ ctl.pc = "idle"
    /\ ctl' = [ctl EXCEPT !.pc = "quit"]
    /\ UNCHANGED <<synth, out, lastOp, tail, setterCalls, mutex, audio, interleaved, env, envHist, osc>>

NextAudio ==
    \/ AudioStart \/ AudioCallbackBegin \/ AudioFillSlot \/ AudioCallbackEnd
    \/ ControlBegin \/ ControlStep \/ ControlEnd \/ ControlQuit

SpecAudio == Init /\ [][NextAudio]_vars

----------------------------------------------------------------------------
(* Notes of any velocity between edits of the parameters the voices hold *)

\* note velocities: below, inside and above [0, 1]
VelIn == {0 - Scale, (8 * Scale) \div 10, 2 * Scale}

NoteOnAny == \E n \in Notes, v \in VelIn : Plain(Call("note_on", <<n, v>>))

NextPool ==
    \/ NoteOnAny
    \/ SetBlend \/ SetVolume \/ SetCutoff \/ SetResonance \/ SetEnvelope
    \/ ToggleHarmonic \/ SetOperatorAmplitude

SpecPool == Init /\ [][NextPool]_vars

----------------------------------------------------------------------------
(* An EnvelopeGenerator on its own.  Its methods are public: every stage,   *)
(* a Release in progress and Idle included, is reached by calling them.     *)

\* cap of the count of next_sample calls since the last note event
MaxEnvCalls == 7

\* envelopes <<attack, decay, sustain, release>>: stages of no length, of a whole
\* number of sample periods, of a fraction of one, and of negative length
EnvShapes ==
    {<<0, 0, Scale \div 2, 0>>,
     <<2 * SamplePeriod, 2 * SamplePeriod, Scale \div 2, 2 * SamplePeriod>>,
     <<2 * SamplePeriod + 20, SamplePeriod + 20, Scale \div 5, 2 * SamplePeriod + 20>>,
     <<0, 2 * SamplePeriod, Scale \div 2, 0 - SamplePeriod>>}

EnvDo(op, g, h) ==
    /\ env' = g
    /\ envHist' = [h EXCEPT !.op = op]
    /\ UNCHANGED <<progVars, osc>>

EnvNoteEvent(op) ==
    [envHist EXCEPT !.event = op, !.calls = 0, !.from = env.current_stage,
                    !.fromValue = env.current_value, !.steady = TRUE]

EnvNoteOn == EnvDo("note_on", EnvelopeGenerator_note_on(env), EnvNoteEvent("note_on"))

EnvNoteOff == EnvDo("note_off", EnvelopeGenerator_note_off(env), EnvNoteEvent("note_off"))

EnvNextSample ==
    LET g == EnvelopeGenerator_next_sample(env)
    IN  EnvDo("next_sample", g,
              [envHist EXCEPT !.out = g.current_value,
                              !.calls = IF envHist.event # "none" /\ @ < MaxEnvCalls
                                        THEN @ + 1 ELSE @])

EnvSetEnvelope ==
    \E a \in EnvShapes :
        /\ EnvelopeOf(a) # env.envelope
        /\ EnvDo("set_envelope", EnvelopeGenerator_set_envelope(env, EnvelopeOf(a)),
                 [envHist EXCEPT !.steady = FALSE])

NextEnv == EnvNoteOn \/ EnvNoteOff \/ EnvNextSample \/ EnvSetEnvelope

SpecEnv == Init /\ [][NextEnv]_vars

----------------------------------------------------------------------------
(* Claims *)

Pool == synth.voices

CeilDiv(a, b) == (a + b - 1) \div b

\* next_sample calls that cover a release of r milliseconds (at least one call)
ReleaseCalls(r) == IF r <= 0 THEN 1 ELSE CeilDiv(r, SamplePeriod)

\* the last note event was a note_off of a pooled note whose release time was
\* not set since
Releasing ==
    /\ tail.op = "note_off"
    /\ tail.note \in DOMAIN Pool
    /\ ~tail.retimed

\* C1: after note_off on a voice with release time R, the next_sample calls keep
\* advancing its envelope, so that once ceil(R / sample period) calls were made
\* with no note_on in between the stage is Idle and is_released() holds.
C1_ReleaseTailCompletes ==
    Releasing =>
        LET v == Pool[tail.note]
        IN  tail.calls >= ReleaseCalls(v.envelope.envelope.release) =>
                /\ v.envelope.current_stage = "Idle"
                /\ Voice_is_released(v)

\* C2: is_playing() stays true after note_off(n) for as long as the release of
\* voice n is in progress (fewer next_sample calls made than the release lasts).
C2_PlayingThroughRelease ==
    Releasing =>
        (tail.calls * SamplePeriod < Pool[tail.note].envelope.envelope.release
            => Synthesizer_is_playing(synth))

\* C3: every next_sample call returns a finite sample and divides by a voice
\* count that is not zero, the empty pool of the initial state included.
C3_NextSampleTotal ==
    out.kind # "none" => (out.kind = "finite" /\ out.divisor > 0)

\* the parameters, harmonics and operators of a voice, and its envelope level
Kept(v) ==
    <<v.envelope.envelope, v.envelope.current_value, v.filter,
      v.engine_blender.blend_ratio,
      v.engine_blender.additive_engine.harmonics,
      v.engine_blender.fm_engine.operators>>

\* C4: every voice sits under its own note number, the pool's key set never
\* shrinks, it grows only by note_on(n, _) adding an absent n, a note_on of a
\* pooled note reuses its voice, and a note_off of a note with no voice leaves
\* the pool as it was.
C4_PoolStep ==
    LET c == lastOp'
        old == synth.voices
        new == synth'.voices
    IN  /\ \A n \in DOMAIN new : new[n].note = n
        /\ DOMAIN old \subseteq DOMAIN new
        /\ DOMAIN new # DOMAIN old =>
              /\ c.op = "note_on"
              /\ c.args[1] \notin DOMAIN old
              /\ DOMAIN new = DOMAIN old \cup {c.args[1]}
        /\ (c.op = "note_on" /\ c.args[1] \in DOMAIN old) =>
              /\ DOMAIN new = DOMAIN old
              /\ Kept(new[c.args[1]]) = Kept(old[c.args[1]])
              /\ \A n \in DOMAIN old \ {c.args[1]} : new[n] = old[n]
        /\ (c.op = "note_off" /\ c.args[1] \notin DOMAIN old) => new = old

C4_PoolLifecycle == [][C4_PoolStep]_vars

\* a note_on that found its voice in a pool of two: the voice carries an envelope
\* level that only earlier samples can have left
WitnessC4 ==
    /\ lastOp.op = "note_on"
    /\ DOMAIN Pool = Notes
    /\ Pool[lastOp.args[1]].envelope.current_value > 0
    /\ Pool[lastOp.args[1]].envelope.envelope.release # DefaultRelease

\* C5: the audio callback and a control command never overlap: no control call
\* runs during a buffer fill, no next_sample runs inside a command, and whoever
\* is inside holds the mutex.
C5_MutualExclusion ==
    /\ ~interleaved
    /\ ~(audio.pc = "fill" /\ ctl.pc = "locked")
    /\ audio.pc = "fill" => mutex = "audio"
    /\ ctl.pc = "locked" => mutex = "control"

\* in the middle of stop-all (one note_off made, one to go) after a callback ran
WitnessC5 ==
    /\ ctl.pc = "locked"
    /\ lastOp.op = "note_off"
    /\ Len(ctl.program) = 1
    /\ audio.pc = "idle"
    /\ audio.calls > 1

\* C6: every voice's velocity, blend ratio, resonance and sustain are in [0, 1]
\* and its cutoff is in [20, sample_rate / 2].
C6_SettersClamp ==
    \A n \in DOMAIN Pool :
        LET v == Pool[n]
        IN  /\ v.velocity \in 0..Scale
            /\ v.engine_blender.blend_ratio \in 0..Scale
            /\ v.filter.resonance \in 0..Scale
            /\ v.envelope.envelope.sustain \in 0..Scale
            /\ v.filter.cutoff_frequency \in CutoffMin..(SampleRate \div 2)

OutOfRangeEdit(c) ==
    \/ /\ c.op \in {"set_harmonic_amplitude", "toggle_harmonic"}
       /\ c.args[1] >= NumHarmonics
    \/ /\ c.op \in {"set_operator_amplitude", "set_operator_frequency_ratio",
                    "set_operator_feedback"}
       /\ c.args[1] >= NumOperators

\* C7: a harmonic edit with index >= 64 or an operator edit with index >= 6
\* returns and leaves the whole Synthesizer as it was.
C7_OutOfRangeIgnored == [][OutOfRangeEdit(lastOp') => synth' = synth]_vars

\* an out-of-range harmonic edit was made on a pool of a held and a released note
WitnessC7 ==
    /\ OutOfRangeEdit(lastOp)
    /\ lastOp.op = "set_harmonic_amplitude"
    /\ DOMAIN Pool = Notes
    /\ \E n \in Notes : Pool[n].is_active
    /\ \E n \in Notes : ~Pool[n].is_active

SetterOps ==
    {"set_blend_ratio", "set_blend", "set_volume", "set_filter_cutoff", "set_cutoff",
     "set_filter_resonance", "set_resonance", "set_envelope", "set_attack", "set_decay",
     "set_sustain", "set_release", "set_harmonic_amplitude", "toggle_harmonic",
     "set_operator_amplitude", "set_operator_frequency_ratio", "set_operator_feedback"}

\* what the global setter call c asks of one voice
VoiceSetter(v, c) ==
    LET a == c.args
    IN  CASE c.op \in {"set_blend_ratio", "set_blend"} -> Voice_set_blend(v, a[1])
          [] c.op = "set_volume" -> Voice_set_volume(v, a[1])
          [] c.op = "set_filter_cutoff" -> Voice_set_cutoff(v, a[1])
          [] c.op = "set_cutoff" -> Voice_set_cutoff(v, MulSat(a[1], CutoffScale))
          [] c.op \in {"set_filter_resonance", "set_resonance"} ->
               Voice_set_resonance(v, a[1])
          [] c.op = "set_envelope" -> Voice_set_envelope(v, EnvelopeOf(a))
          [] c.op = "set_attack" -> Voice_set_attack(v, a[1])
          [] c.op = "set_decay" -> Voice_set_decay(v, a[1])
          [] c.op = "set_sustain" -> Voice_set_sustain(v, a[1])
          [] c.op = "set_release" -> Voice_set_release(v, a[1])
          [] c.op = "set_harmonic_amplitude" ->
               Voice_set_harmonic_amplitude(v, a[1], a[2])
          [] c.op = "toggle_harmonic" -> Voice_toggle_harmonic(v, a[1])
          [] c.op = "set_operator_amplitude" ->
               Voice_set_operator_amplitude(v, a[1], a[2])
          [] c.op = "set_operator_frequency_ratio" ->
               Voice_set_operator_frequency_ratio(v, a[1], a[2])
          [] c.op = "set_operator_feedback" ->
               Voice_set_operator_feedback(v, a[1], a[2])

\* C8: a global setter applies its change to every voice of the pool, held or
\* released, and changes nothing else: not the key set, not an active flag, not
\* the Synthesizer's own fields.
C8_SetterStep ==
    lastOp'.op \in SetterOps =>
        /\ DOMAIN synth'.voices = DOMAIN synth.voices
        /\ \A n \in DOMAIN synth.voices :
              /\ synth'.voices[n] = VoiceSetter(synth.voices[n], lastOp')
              /\ synth'.voices[n].is_active = synth.voices[n].is_active
        /\ synth'.current_note = synth.current_note
        /\ synth'.current_velocity = synth.current_velocity
        /\ out' = out

C8_SettersBroadcast == [][C8_SetterStep]_vars

\* set_resonance(2.0) reached a held and a released voice alike
WitnessC8 ==
    /\ lastOp.op = "set_resonance"
    /\ DOMAIN Pool = Notes
    /\ \E n \in Notes : Pool[n].is_active
    /\ \E n \in Notes : ~Pool[n].is_active
    /\ \A n \in Notes : Pool[n].filter.resonance = Scale

\* C9: next_sample divides by the number of voices in the pool, not by the
\* number of active ones, and the divisor never decreases.
C9_DivisorStep ==
    /\ lastOp'.op = "next_sample" => out'.divisor = Cardinality(DOMAIN synth'.voices)
    /\ out'.divisor >= out.divisor

C9_DivisorIsPoolSize == [][C9_DivisorStep]_vars

\* a sample taken when both pooled notes were released: divisor 2, nothing active
WitnessC9 ==
    /\ lastOp.op = "next_sample"
    /\ out.divisor = 2
    /\ ActiveCount(synth) = 0

\* C10: a callback that has filled its buffer has called next_sample once per
\* frame, whatever the channel count.
C10_OneCallPerFrame ==
    (audio.pc = "fill" /\ audio.remaining = 0) => audio.calls = audio.frames

----------------------------------------------------------------------------
(* A SineOscillator on its own.  Its phase is an exact count of              *)
(* 1/SampleRate cycles, so that phase += frequency / sample_rate adds the    *)
(* frequency in Hz and 1.0 is SampleRate.                                    *)

\* next_sample calls per behaviour
MaxOscCalls == 5

SineOscillator_set_frequency(o, freq) == [o EXCEPT !.frequency = freq]

SineOscillator_next_sample(o) ==
    LET phase == o.phase + o.frequency
    IN  [o EXCEPT !.phase = IF phase >= SampleRate THEN phase - SampleRate ELSE phase]

\* frequencies the engines give an oscillator: base frequency times harmonic
\* multiplier (first and last harmonic of notes 69 and 81), and base frequency
\* times a negative operator ratio
OscFrequencies ==
    {NoteFrequency(n) * m : n \in {ConcertA, ConcertA + 12}, m \in {1, NumHarmonics}}
        \cup {0 - NoteFrequency(ConcertA)}

OscSetFrequency ==
    \E f \in OscFrequencies :
        /\ f # osc.frequency
        /\ osc' = [osc EXCEPT !.frequency = SineOscillator_set_frequency(osc, f).frequency]
        /\ UNCHANGED <<progVars, env, envHist>>

OscNextSample ==
    /\ osc.calls < MaxOscCalls
    /\ osc' = [osc EXCEPT !.phase = SineOscillator_next_sample(osc).phase,
                          !.calls = @ + 1]
    /\ UNCHANGED <<progVars, env, envHist>>

NextOsc == OscSetFrequency \/ OscNextSample

SpecOsc == Init /\ [][NextOsc]_vars

----------------------------------------------------------------------------
(* Claims about the EnvelopeGenerator, checked under SpecEnv *)

\* the attack ramp k calls after a note-on: time / attack, 1.0 once the time is up
AttackRamp(k, attack) ==
    IF k * SamplePeriod >= attack THEN Scale
    ELSE (Scale * k * SamplePeriod) \div attack

\* C11: note_on, from whatever stage, sets the gate, enters Attack and zeroes
\* the elapsed time; every next_sample made in the Attack that follows returns
\* the attack ramp at the time since the note-on, whatever the envelope's value
\* was before the note-on.
C11_NoteOnStep ==
    /\ envHist'.op = "note_on" =>
          /\ env'.gate
          /\ env'.current_stage = "Attack"
          /\ env'.current_time = 0
    /\ ( /\ envHist'.op = "next_sample"
         /\ envHist.event = "note_on"
         /\ env.current_stage = "Attack"
         /\ envHist.calls < MaxEnvCalls )
       => envHist'.out = AttackRamp(envHist'.calls, env.envelope.attack)

C11_NoteOnRestartsAttack == [][C11_NoteOnStep]_vars

\* a note-on interrupted a Release in progress, and the first sample after it
\* is on the attack ramp, below the value the release had reached
WitnessC11 ==
    /\ envHist.op = "next_sample"
    /\ envHist.event = "note_on"
    /\ envHist.from = "Release"
    /\ envHist.fromValue > 0
    /\ envHist.calls = 1
    /\ env.current_stage = "Attack"
    /\ envHist.out < envHist.fromValue

\* the release ramp k calls after a note-off: sustain * (1 - time / release),
\* 0.0 once the time is up
ReleaseRamp(k, sustain, release) ==
    IF k * SamplePeriod >= release THEN 0
    ELSE (sustain * (release - k * SamplePeriod)) \div release

\* C12: note_off, from whatever stage, clears the gate, enters Release and
\* zeroes the elapsed time; every next_sample made in the Release that follows
\* returns the line from sustain to 0 at the time since the note-off, whatever
\* the envelope's value was at the note-off, and the stage ends in Idle once
\* the release time is up.
C12_NoteOffStep ==
    /\ envHist'.op = "note_off" =>
          /\ ~env'.gate
          /\ env'.current_stage = "Release"
          /\ env'.current_time = 0
    /\ ( /\ envHist'.op = "next_sample"
         /\ envHist.event = "note_off"
         /\ env.current_stage = "Release"
         /\ envHist.calls < MaxEnvCalls )
       => /\ envHist'.out =
                ReleaseRamp(envHist'.calls, env.envelope.sustain, env.envelope.release)
          /\ env'.current_stage =
                IF envHist'.calls * SamplePeriod >= env.envelope.release
                THEN "Idle" ELSE "Release"

C12_NoteOffStartsRelease == [][C12_NoteOffStep]_vars

\* a note-off interrupted an Attack whose value was not the sustain level, and
\* the first sample after it is on the release ramp
WitnessC12 ==
    /\ envHist.op = "next_sample"
    /\ envHist.event = "note_off"
    /\ envHist.from = "Attack"
    /\ envHist.fromValue > 0
    /\ envHist.fromValue # env.envelope.sustain
    /\ envHist.steady
    /\ envHist.calls = 1
    /\ env.current_stage = "Release"
    /\ envHist.out > 0

\* the moves of the stage that next_sample may make
StageChain ==
    {<<"Attack", "Decay">>, <<"Decay", "Sustain">>, <<"Sustain", "Release">>,
     <<"Release", "Idle">>}

Stages == {"Attack", "Decay", "Sustain", "Release", "Idle"}

C13_NextSampleStep ==
    envHist'.op = "next_sample" =>
        /\ \/ env'.current_stage = env.current_stage
           \/ <<env.current_stage, env'.current_stage>> \in StageChain
        /\ (env.current_stage = "Sustain" /\ env.gate) =>
              /\ env'.current_stage = "Sustain"
              /\ envHist'.out = env.envelope.sustain
        /\ (env.current_stage = "Sustain" /\ env'.current_stage = "Release") => ~env.gate
        /\ env.current_stage = "Idle" =>
              /\ env'.current_stage = "Idle"
              /\ envHist'.out = 0

\* C13: the generator starts in Idle; a next_sample call keeps the stage or
\* moves it one step along Attack -> Decay -> Sustain -> Release -> Idle;
\* in Sustain with the gate set it stays there and returns sustain, and it
\* leaves Sustain for Release only with the gate cleared; in Idle it stays in
\* Idle and returns 0.
C13_StageOrder ==
    /\ env.current_stage = "Idle"
    /\ [][C13_NextSampleStep]_vars

\* a note held into Sustain was released, the release ran out, and at least
\* one more sample was taken in Idle
WitnessC13 ==
    /\ envHist.op = "next_sample"
    /\ envHist.event = "note_off"
    /\ envHist.from = "Sustain"
    /\ envHist.steady
    /\ env.envelope.release > 0
    /\ envHist.calls * SamplePeriod > env.envelope.release + SamplePeriod
    /\ env.current_stage = "Idle"
    /\ envHist.out = 0

\* C14: a next_sample call made in Attack, Decay or Release while that stage's
\* duration is <= 0 leaves the stage and returns the value the next stage
\* starts from (1.0, sustain, 0.0), which is the arm that does not divide by
\* the duration; and no next_sample call returns a non-finite value.
C14_ZeroLengthStep ==
    envHist'.op = "next_sample" =>
        /\ Finite(envHist'.out)
        /\ (env.current_stage = "Attack" /\ env.envelope.attack <= 0) =>
              /\ env'.current_stage = "Decay"
              /\ envHist'.out = Scale
        /\ (env.current_stage = "Decay" /\ env.envelope.decay <= 0) =>
              /\ env'.current_stage = "Sustain"
              /\ envHist'.out = env.envelope.sustain
        /\ (env.current_stage = "Release" /\ env.envelope.release <= 0) =>
              /\ env'.current_stage = "Idle"
              /\ envHist'.out = 0

C14_ZeroLengthStages == [][C14_ZeroLengthStep]_vars

\* two calls after a note-on with attack and decay both of no length, the
\* envelope is in Sustain
WitnessC14 ==
    /\ envHist.op = "next_sample"
    /\ envHist.event = "note_on"
    /\ envHist.steady
    /\ env.envelope.attack <= 0
    /\ env.envelope.decay <= 0
    /\ envHist.calls = 2
    /\ env.current_stage = "Sustain"
    /\ envHist.out = env.envelope.sustain

\* a duration that is a whole number of sample periods
WholePeriods(d) == d >= 0 /\ d % SamplePeriod = 0

\* the samples since the last note event were taken with one envelope
Timed(event) ==
    /\ envHist'.op = "next_sample"
    /\ envHist.event = event
    /\ envHist.steady
    /\ envHist.calls < MaxEnvCalls

\* the attack ramp never falls and never exceeds 1.0
AttackRises ==
    (Timed("note_on") /\ env.current_stage = "Attack") =>
        /\ envHist'.out >= (IF envHist.calls = 0 THEN 0 ELSE envHist.out)
        /\ envHist'.out <= Scale

\* C15 as stated: with attack, decay and release whole numbers of sample
\* periods, the attack ramp rises to 1.0 at call attack * sample_rate after the
\* note-on, call attack * sample_rate + decay * sample_rate returns sustain,
\* and call release * sample_rate after a note-off made in Sustain returns 0.
C15_LiteralStep ==
    LET e == env.envelope
    IN  /\ AttackRises
        /\ ( /\ Timed("note_on")
             /\ WholePeriods(e.attack) /\ WholePeriods(e.decay)
             /\ envHist'.calls = e.attack \div SamplePeriod + e.decay \div SamplePeriod )
           => envHist'.out = e.sustain
        /\ ( /\ Timed("note_off")
             /\ envHist.from = "Sustain"
             /\ WholePeriods(e.release)
             /\ envHist'.calls = e.release \div SamplePeriod )
           => envHist'.out = 0

StageCalls(d) == IF d <= 0 THEN 1 ELSE CeilDiv(d, SamplePeriod)

\* C15, amended: a stage of duration d takes StageCalls(d) calls.  The attack
\* ramp rises and reaches 1.0 at call StageCalls(attack) after the note-on;
\* call StageCalls(attack) + StageCalls(decay) returns sustain and enters
\* Sustain; call StageCalls(release) after a note-off made in Sustain returns 0.
C15_TimingStep ==
    LET e == env.envelope
    IN  /\ AttackRises
        /\ (Timed("note_on") /\ envHist'.calls = StageCalls(e.attack)) =>
              envHist'.out = Scale
        /\ (Timed("note_on") /\ envHist'.calls = StageCalls(e.attack) + StageCalls(e.decay)) =>
              /\ envHist'.out = e.sustain
              /\ env'.current_stage = "Sustain"
        /\ ( /\ Timed("note_off")
             /\ envHist.from = "Sustain"
             /\ envHist'.calls = StageCalls(e.release) )
           => /\ envHist'.out = 0
              /\ env'.current_stage = "Idle"

----------------------------------------------------------------------------
(* Claims about the additive engine, checked under SpecSetters *)

Additive(v) == v.engine_blender.additive_engine

\* the amplitude the claim gives the oscillator of harmonic i
DerivedAmplitude(h) == IF h.enabled THEN h.amplitude ELSE 0

\* C16: after every call, in every voice of the pool, the oscillator of each
\* harmonic has the harmonic's amplitude if the harmonic is enabled and 0 if
\* not; set_harmonic_amplitude and toggle_harmonic leave every oscillator's
\* frequency as it was.
C16_HarmonicStep ==
    /\ \A n \in DOMAIN synth'.voices : \A i \in 0..(NumHarmonics - 1) :
          Additive(synth'.voices[n]).oscillators[i].amplitude =
              DerivedAmplitude(Additive(synth'.voices[n]).harmonics[i])
    /\ lastOp'.op \in {"set_harmonic_amplitude", "toggle_harmonic"} =>
          \A n \in DOMAIN synth.voices : \A i \in 0..(NumHarmonics - 1) :
              Additive(synth'.voices[n]).oscillators[i].frequency =
                  Additive(synth.voices[n]).oscillators[i].frequency

C16_OscillatorFollowsHarmonic == [][C16_HarmonicStep]_vars

----------------------------------------------------------------------------
(* Claims about the oscillator, checked under SpecOsc *)

\* C17: after every next_sample call the oscillator's phase is in [0, 1),
\* whatever frequency it was given.
C17_PhaseInUnitInterval == 0 <= osc.phase /\ osc.phase < SampleRate

----------------------------------------------------------------------------
(* Claims about the voices of the pool, checked under Spec *)

Stage(v) == v.envelope.current_stage

\* C18: after every call, each voice of the pool has is_active equal to its
\* envelope's gate, and is active exactly in Attack, Decay and Sustain; no
\* next_sample call finds an active voice in Sustain with the gate cleared, and
\* a voice enters Release only in the note_off call for its note.
C18_ActiveStep ==
    /\ \A n \in DOMAIN synth'.voices :
          LET v == synth'.voices[n]
          IN  /\ v.is_active = v.envelope.gate
              /\ v.is_active <=> Stage(v) \in {"Attack", "Decay", "Sustain"}
    /\ lastOp'.op = "next_sample" =>
          \A n \in DOMAIN synth.voices :
              LET v == synth.voices[n]
              IN  ~(v.is_active /\ Stage(v) = "Sustain" /\ ~v.envelope.gate)
    /\ \A n \in DOMAIN synth.voices :
          (Stage(synth'.voices[n]) = "Release" /\ Stage(synth.voices[n]) # "Release")
              => lastOp' = Call("note_off", <<n>>)

C18_ActiveIsGate == [][C18_ActiveStep]_vars

\* one voice is held in Sustain and sampled while another has been released
WitnessC18 ==
    /\ lastOp.op = "next_sample"
    /\ \E n \in DOMAIN Pool :
          Pool[n].is_active /\ Pool[n].envelope.gate /\ Stage(Pool[n]) = "Sustain"
    /\ \E n \in DOMAIN Pool :
          ~Pool[n].is_active /\ ~Pool[n].envelope.gate /\ Stage(Pool[n]) = "Release"

----------------------------------------------------------------------------
(* Claims about the parameters of new voices, checked under SpecPool *)

\* the parameters a setter can edit, as Voice::new leaves them
BuiltIn(v) ==
    /\ v.engine_blender.blend_ratio = Scale \div 2
    /\ v.filter.cutoff_frequency = DefaultCutoff
    /\ v.filter.resonance = 0
    /\ v.envelope.envelope =
          [attack |-> DefaultAttack, decay |-> DefaultDecay,
           sustain |-> (7 * Scale) \div 10, release |-> DefaultRelease]
    /\ \A i \in 0..(NumHarmonics - 1) :
          LET h == v.engine_blender.additive_engine.harmonics[i]
          IN  h.enabled = (i = 0) /\ h.amplitude = (IF i = 0 THEN Scale ELSE 0)
    /\ \A i \in 0..(NumOperators - 1) :
          LET o == v.engine_blender.fm_engine.operators[i]
          IN  /\ o.enabled = (i = 0)
              /\ o.amplitude = (IF i = 0 THEN Scale ELSE 0)
              /\ o.frequency_ratio = (IF i = 0 THEN Scale ELSE 0)
              /\ o.feedback = 0

\* C19: a setter called on an empty pool changes nothing; the voice a note_on
\* creates for a note not in the pool has the built-in parameters, whatever
\* setters were called before; and every note_on leaves the voice's volume at
\* the note velocity clamped to [0, 1].
C19_DefaultsStep ==
    LET c == lastOp'
    IN  /\ (c.op \in SetterOps /\ DOMAIN synth.voices = {}) => synth' = synth
        /\ (c.op = "note_on" /\ c.args[1] \notin DOMAIN synth.voices) =>
              BuiltIn(synth'.voices[c.args[1]])
        /\ c.op = "note_on" =>
              synth'.voices[c.args[1]].velocity =
                  (IF c.args[2] < 0 THEN 0 ELSE IF c.args[2] > Scale THEN Scale ELSE c.args[2])

C19_NoGlobalParameters == [][C19_DefaultsStep]_vars

\* a note played with a velocity above 1.0 after a resonance edit made on
\* another voice: the two voices of the pool differ in resonance
WitnessC19 ==
    /\ lastOp.op = "note_on"
    /\ lastOp.args[2] > Scale
    /\ Pool[lastOp.args[1]].velocity = Scale
    /\ Pool[lastOp.args[1]].filter.resonance = 0
    /\ \E n \in DOMAIN Pool : Pool[n].filter.resonance > 0

====
